---------------------------- MODULE Spec2Model ----------------------------
(***************************************************************************)
(* Model of datum-mcp: the schema registry (discovery.py), the pruner,     *)
(* the skeleton builder and the validator (server.py), served either by    *)
(* the single-threaded stdio loop (cli.py main) or by the HTTP worker pool *)
(* (server.run_http).                                                      *)
(*                                                                         *)
(* Dotted paths are sequences of tokens: key names, the separator ".",     *)
(* the wildcard "*" and list-index markers "[0]", "[1]", ...  Property and *)
(* document key names are identifiers (no "." and no "[n]" inside a key).  *)
(* Python dicts are sequences of entries [k, v] in insertion order.        *)
(***************************************************************************)
EXTENDS Integers, Sequences, FiniteSets, TLC

\* ------------------------------------------------------------ bounds
\* HTTP worker threads that may run handlers at the same time.
NThreads == 2
\* Refresh requests accepted in one run.
MaxRefresh == 2
\* Branches of one allOf/anyOf/oneOf list.
MaxBranches == 2
\* Input lines the stdio loop reads in one run.
MaxLines == 3

\* ------------------------------------------------------------ dict helpers
Keys(d) == {d[i].k : i \in DOMAIN d}
Has(d, key) == key \in Keys(d)
Get(d, key) == (CHOOSE i \in DOMAIN d : d[i].k = key)
Val(d, key) == d[Get(d, key)].v
IsNotKey(ent, key) == ent.k # key
Pop(d, key) == LET keep(ent) == IsNotKey(ent, key) IN SelectSeq(d, keep)
SeqSet(s) == {s[i] : i \in DOMAIN s}
\* dict[key] = v on a table keyed by (apiVersion, kind) or by kind
Put(f, key, v) == [x \in (DOMAIN f) \cup {key} |-> IF x = key THEN v ELSE f[x]]
Empty == [x \in {} |-> {}]

\* ------------------------------------------------------------ paths
Dot == "."
Star == "*"
IdxTokens == <<"[0]", "[1]", "[2]">>
IdxTok(i) == IdxTokens[i + 1]
IsNotIdx(tok) == tok \notin SeqSet(IdxTokens)
\* f"{base}.{k}" if base else k
Join(base, key) == IF base = <<>> THEN <<key>> ELSE base \o <<Dot, key>>
\* base + ".*"
Wild(base) == base \o <<Dot, Star>>
\* faulty variant: the index markers are left in the path that is looked up
IDXsubKeepsIndex(here) == here
\* _IDX.sub("", here)
IDXsub(here) == SelectSeq(here, IsNotIdx)
\* clean.startswith("spec.")
StartsWithSpecDot(p) == Len(p) >= 2 /\ p[1] = "spec" /\ p[2] = Dot

\* ------------------------------------------------------------ schema nodes
\* A JSONSchema node as parsed from YAML.  type "" is an absent type;
\* addl is "absent", "true" or "schema" (then addlSchema holds it);
\* items holds zero or one node.
N0 == [type |-> "", preserve |-> FALSE, props |-> <<>>, required |-> {},
       addl |-> "absent", addlSchema |-> <<>>, items |-> <<>>,
       allOf |-> <<>>, anyOf |-> <<>>, oneOf |-> <<>>, hasProps |-> FALSE]
Prim(t) == [N0 EXCEPT !.type = t]
Props(ps) == [N0 EXCEPT !.props = ps, !.hasProps = TRUE]
Obj(ps, req) == [N0 EXCEPT !.type = "object", !.props = ps, !.required = req,
                            !.hasProps = TRUE]
Arr(it) == [N0 EXCEPT !.type = "array", !.items = <<it>>]
P(key, node) == [k |-> key, v |-> node]

\* faulty variant: the allOf / anyOf / oneOf branches are not visited
RECURSIVE CollectBuggyNoCombinators(_, _)
CollectBuggyNoCombinators(node, base) ==
    (IF node.preserve THEN {Wild(base)} ELSE {})
    \cup (IF node.type = "object"
          THEN UNION {{Join(base, node.props[i].k)}
                      \cup CollectBuggyNoCombinators(node.props[i].v,
                                                     Join(base, node.props[i].k))
                      : i \in DOMAIN node.props}
               \cup (IF node.addl = "schema"
                     THEN {Wild(base)}
                          \cup CollectBuggyNoCombinators(node.addlSchema[1], base)
                     ELSE IF node.addl = "true" THEN {Wild(base)} ELSE {})
          ELSE IF node.type = "array"
          THEN CollectBuggyNoCombinators(
                   IF node.items = <<>> THEN N0 ELSE node.items[1], base)
          ELSE {})

\* faulty variant: the items of an array are collected one segment deeper, under
\* the index marker of the first element
RECURSIVE CollectIndexesItems(_, _)
CollectIndexesItems(node, base) ==
    (IF node.preserve THEN {Wild(base)} ELSE {})
    \cup UNION {CollectIndexesItems(node.allOf[i], base) : i \in DOMAIN node.allOf}
    \cup UNION {CollectIndexesItems(node.anyOf[i], base) : i \in DOMAIN node.anyOf}
    \cup UNION {CollectIndexesItems(node.oneOf[i], base) : i \in DOMAIN node.oneOf}
    \cup (IF node.type = "object"
          THEN UNION {{Join(base, node.props[i].k)}
                      \cup CollectIndexesItems(node.props[i].v,
                                               Join(base, node.props[i].k))
                      : i \in DOMAIN node.props}
               \cup (IF node.addl = "schema"
                     THEN {Wild(base)} \cup CollectIndexesItems(node.addlSchema[1], base)
                     ELSE IF node.addl = "true" THEN {Wild(base)} ELSE {})
          ELSE IF node.type = "array"
          THEN CollectIndexesItems(IF node.items = <<>> THEN N0 ELSE node.items[1],
                                   base \o <<IdxTok(0)>>)
          ELSE {})

\* DiscoveryCache._collect_paths: the set `out` filled for (node, base).
RECURSIVE CollectPaths(_, _)
CollectPaths(node, base) ==
    (IF node.preserve THEN {Wild(base)} ELSE {})
    \cup UNION {CollectPaths(node.allOf[i], base) : i \in DOMAIN node.allOf}
    \cup UNION {CollectPaths(node.anyOf[i], base) : i \in DOMAIN node.anyOf}
    \cup UNION {CollectPaths(node.oneOf[i], base) : i \in DOMAIN node.oneOf}
    \cup (IF node.type = "object"
          THEN UNION {{Join(base, node.props[i].k)}
                      \cup CollectPaths(node.props[i].v, Join(base, node.props[i].k))
                      : i \in DOMAIN node.props}
               \cup (IF node.addl = "schema"
                     THEN {Wild(base)} \cup CollectPaths(node.addlSchema[1], base)
                     ELSE IF node.addl = "true" THEN {Wild(base)} ELSE {})
          ELSE IF node.type = "array"
          THEN CollectPaths(IF node.items = <<>> THEN N0 ELSE node.items[1], base)
          ELSE {})


\* ------------------------------------------------------------ document values
\* A parsed YAML value: t is "map", "list", "str", "int" or "null"; e holds a
\* map's entries or a list's items; s holds a scalar's text.
VMap(ents) == [t |-> "map", e |-> ents, s |-> ""]
VList(items) == [t |-> "list", e |-> items, s |-> ""]
VStr(x) == [t |-> "str", e |-> <<>>, s |-> x]
VInt(x) == [t |-> "int", e |-> <<>>, s |-> x]
VNull == [t |-> "null", e |-> <<>>, s |-> ""]
E(key, val) == [k |-> key, v |-> val]
\* Python truthiness of a parsed value (`x or {}`, `if not x`)
Falsy(v) == \/ v.t = "null"
            \/ v.t \in {"map", "list"} /\ v.e = <<>>
            \/ v.t = "str" /\ v.s = ""
            \/ v.t = "int" /\ v.s = "0"
\* A document text is known by what yaml.safe_load makes of it.
BadText == [parse |-> "error", data |-> VNull]
\* yaml.safe_dump(data, sort_keys=False)
SafeDump(data) == [parse |-> "ok", data |-> data]
\* dict.get(key) on a parsed mapping: the value, or None
DGet(m, key) == IF Has(m.e, key) THEN Val(m.e, key) ELSE VNull
SetVal(d, key, val) == [i \in DOMAIN d |-> IF d[i].k = key THEN E(key, val) ELSE d[i]]
Hashable(v) == v.t \notin {"map", "list"}
\* the registry key (api, kind) two parsed values look up, <<>> if they can match none
KeyOf(api, kind) == IF api.t = "str" /\ kind.t = "str" THEN <<api.s, kind.s>> ELSE <<>>

\* ------------------------------------------------------------ server.py: _prune
ALLOWED_META_ANNOTATIONS == {}
ALLOWED_META_LABELS == {}
Always == {"apiVersion", "kind", "metadata"}

\* The test of walk: is the key at `clean` stripped?
Disallowed(clean, allowedSet) == StartsWithSpecDot(clean) /\ clean \notin allowedSet

\* _prune.walk: the node after the in-place removals, and removed_spec's new items
RECURSIVE Walk(_, _, _)
RECURSIVE WalkDict(_, _, _)
RECURSIVE WalkList(_, _, _, _)
Walk(node, dotted, allowedSet) ==
    IF node.t = "map"
    THEN LET r == WalkDict(node.e, dotted, allowedSet)
         IN [node |-> VMap(r.e), removed |-> r.removed]
    ELSE IF node.t = "list"
    THEN LET r == WalkList(node.e, 0, dotted, allowedSet)
         IN [node |-> VList(r.e), removed |-> r.removed]
    ELSE [node |-> node, removed |-> <<>>]
WalkDict(ents, dotted, allowedSet) ==
    IF ents = <<>> THEN [e |-> <<>>, removed |-> <<>>]
    ELSE LET h == Head(ents)
             here == Join(dotted, h.k)
             clean == IDXsub(here)
             rest == WalkDict(Tail(ents), dotted, allowedSet)
         IN IF Disallowed(clean, allowedSet)
            THEN [e |-> rest.e, removed |-> <<clean>> \o rest.removed]
            ELSE LET sub == Walk(h.v, here, allowedSet)
                 IN [e |-> <<E(h.k, sub.node)>> \o rest.e,
                     removed |-> sub.removed \o rest.removed]
WalkList(items, i, dotted, allowedSet) ==
    IF items = <<>> THEN [e |-> <<>>, removed |-> <<>>]
    ELSE LET sub == Walk(Head(items), dotted \o <<IdxTok(i)>>, allowedSet)
             rest == WalkList(Tail(items), i + 1, dotted, allowedSet)
         IN [e |-> <<sub.node>> \o rest.e, removed |-> sub.removed \o rest.removed]

\* one of the two metadata loops (annotations, labels) on the metadata entries
RECURSIVE StripKeys(_, _, _)
StripKeys(ents, name, keep) ==
    IF ents = <<>> THEN [e |-> <<>>, removed |-> <<>>]
    ELSE LET h == Head(ents)
             rest == StripKeys(Tail(ents), name, keep)
         IN IF h.k \notin keep
            THEN [e |-> rest.e,
                  removed |-> <<<<"metadata", Dot, name, Dot, h.k>>>> \o rest.removed]
            ELSE [e |-> <<h>> \o rest.e, removed |-> rest.removed]
MetaLoop(meta, name, keep) ==
    LET sub == DGet(VMap(meta), name)
    IN IF ~Has(meta, name)
       THEN [e |-> meta, removed |-> <<>>]      \* .get default {}: pop is a no-op
       ELSE IF sub.t # "map"
       THEN [e |-> meta, removed |-> <<>>]
       ELSE LET r == StripKeys(sub.e, name, keep)
            IN [e |-> IF r.e = <<>> THEN Pop(meta, name)
                      ELSE SetVal(meta, name, VMap(r.e)),
                removed |-> r.removed]
PruneMetadata(data) ==
    LET meta == DGet(VMap(data), "metadata")
    IN IF ~Has(data, "metadata") \/ meta.t # "map"
       THEN [e |-> data, removed |-> <<>>]
       ELSE LET a == MetaLoop(meta.e, "annotations", ALLOWED_META_ANNOTATIONS)
                l == MetaLoop(a.e, "labels", ALLOWED_META_LABELS)
            IN [e |-> IF l.e = <<>> THEN Pop(data, "metadata")
                      ELSE SetVal(data, "metadata", VMap(l.e)),
                removed |-> a.removed \o l.removed]
\* the loop over list(data.keys()) dropping stray top-level keys
RECURSIVE PruneTop(_, _)
PruneTop(ents, allowed_top) ==
    IF ents = <<>> THEN [e |-> <<>>, removed |-> <<>>]
    ELSE LET h == Head(ents)
             rest == PruneTop(Tail(ents), allowed_top)
         IN IF h.k \notin (allowed_top \cup Always)
            THEN [e |-> rest.e, removed |-> <<<<h.k>>>> \o rest.removed]
            ELSE [e |-> <<h>> \o rest.e, removed |-> rest.removed]

\* What _prune returns or raises.  status: "ok" (the triple), "http" (an
\* HTTPException with `code`), "raised" (any other exception).
Failure(st, code, why) ==
    [status |-> st, code |-> code, detail |-> why, cleaned |-> BadText,
     removed_spec |-> <<>>, removed_meta_or_top |-> <<>>, hasOutput |-> FALSE]
\* lines 70-126 of _prune, given what the lookups in the tables returned
PruneBody(data, hasAllowed, allowedSet, allowed_top) ==
    LET w == IF hasAllowed THEN Walk(data, <<>>, allowedSet)
             ELSE [node |-> data, removed |-> <<>>]
        m == PruneMetadata(w.node.e)
        t == PruneTop(m.e, allowed_top)
    IN [status |-> "ok", code |-> 200, detail |-> "",
        cleaned |-> SafeDump(VMap(t.e)),
        removed_spec |-> w.removed,
        removed_meta_or_top |-> m.removed \o t.removed, hasOutput |-> TRUE]
\* yaml.safe_load(doc) or {}
LoadOrEmpty(text) == IF Falsy(text.data) THEN VMap(<<>>) ELSE text.data
\* lines 61-68 of _prune up to the lookup in _FULL_SCHEMA: the failure, or "ok"
PruneHead(text) ==
    IF text.parse = "error" THEN Failure("http", 400, "Invalid YAML")
    ELSE LET data == LoadOrEmpty(text)
         IN IF data.t # "map" THEN Failure("raised", 500, "AttributeError")
            ELSE IF ~Hashable(DGet(data, "apiVersion")) \/ ~Hashable(DGet(data, "kind"))
            THEN Failure("raised", 500, "TypeError")
            ELSE [Failure("ok", 200, "") EXCEPT !.hasOutput = TRUE]
\* the registry key a request document names, <<>> if it names none
DocKey(text) == LET data == LoadOrEmpty(text)
                IN IF text.parse = "ok" /\ data.t = "map"
                   THEN KeyOf(DGet(data, "apiVersion"), DGet(data, "kind"))
                   ELSE <<>>
UnknownType == Failure("http", 400, "is not known to the control plane")

\* faulty variant: the lookup in _FULL_SCHEMA is skipped, an unknown type is pruned as
\* a type without schema
PruneSkipsTypeCheck(text, fs, al, ta) ==
    LET h == PruneHead(text)
        key == DocKey(text)
    IN IF h.status # "ok" THEN h
       ELSE PruneBody(LoadOrEmpty(text), key \in DOMAIN al,
                      IF key \in DOMAIN al THEN al[key] ELSE {},
                      IF key \in DOMAIN ta THEN ta[key] ELSE {})
\* _prune run without interruption against tables fs, al, ta
Prune(text, fs, al, ta) ==
    LET h == PruneHead(text)
        key == DocKey(text)
    IN IF h.status # "ok" THEN h
       ELSE IF key \notin DOMAIN fs THEN UnknownType
       ELSE PruneBody(LoadOrEmpty(text), key \in DOMAIN al,
                      IF key \in DOMAIN al THEN al[key] ELSE {},
                      IF key \in DOMAIN ta THEN ta[key] ELSE {})


\* ------------------------------------------------------------ server.py: _make_skeleton
\* Every key name of the model in Python's string order, for sorted().
KeyOrder == <<"a", "annotations", "anything", "apiVersion", "b", "bogus", "data", "else",
              "kind", "labels", "meta", "metadata", "name", "namespace",
              "replicas", "rules", "sel", "spec", "status", "stray", "x">>
Sorted(S) == LET in(key) == key \in S IN SelectSeq(KeyOrder, in)

RECURSIVE build(_)
RECURSIVE buildProps(_, _)
\* _make_skeleton.build
build(node) ==
    IF node.type = "object" THEN VMap(buildProps(node.props, node.required))
    ELSE IF node.type = "array"
    THEN VList(<<build(IF node.items = <<>> THEN N0 ELSE node.items[1])>>)
    ELSE VNull
buildProps(props, req) ==
    IF props = <<>> THEN <<>>
    ELSE (IF Head(props).k \in req THEN <<E(Head(props).k, build(Head(props).v))>>
          ELSE <<>>) \o buildProps(Tail(props), req)
RECURSIVE buildTop(_, _)
\* the loop over sorted(req) when the schema has no spec
buildTop(names, props) ==
    IF names = <<>> THEN <<>>
    ELSE (IF Has(props, Head(names))
          THEN <<E(Head(names), build(Val(props, Head(names))))>> ELSE <<>>)
         \o buildTop(Tail(names), props)
\* _make_skeleton(api, kind), given schema = _FULL_SCHEMA[(api, kind)]
MakeSkeleton(api, kind, schema) ==
    LET props == schema.props
        needed == IF Has(props, "metadata") THEN Val(props, "metadata").required ELSE {}
        meta == (IF "name" \in needed THEN <<E("name", VStr(""))>> ELSE <<>>)
                \o (IF "namespace" \in needed THEN <<E("namespace", VStr(""))>> ELSE <<>>)
        b == build(Val(props, "spec"))
    IN SafeDump(VMap(
         <<E("apiVersion", VStr(api)), E("kind", VStr(kind))>>
         \o (IF meta # <<>> THEN <<E("metadata", VMap(meta))>> ELSE <<>>)
         \o (IF Has(props, "spec")
             THEN <<E("spec", IF Falsy(b) THEN VMap(<<>>) ELSE b)>>
             ELSE buildTop(Sorted(schema.required \ Always), props))))

\* ------------------------------------------------------------ discovery.py: the tables
\* The four lookup tables as one value.
Tables(al, ta, k2a, fs) ==
    [allowed |-> al, top_allowed |-> ta, kind2api |-> k2a, full_schema |-> fs]
NoTables == Tables(Empty, Empty, Empty, Empty)

\* _register_schema, statement by statement
RegFull(T, api, kind, schema) ==
    [T EXCEPT !.full_schema = Put(@, <<api, kind>>, schema)]
RegKind(T, api, kind, schema) ==
    LET old == IF kind \in DOMAIN T.kind2api THEN T.kind2api[kind] ELSE <<>>
    IN [T EXCEPT !.kind2api =
            Put(@, kind, IF api \in SeqSet(old) THEN old ELSE Append(old, api))]
RegTop(T, api, kind, schema) ==
    [T EXCEPT !.top_allowed = Put(@, <<api, kind>>, Keys(schema.props))]
RegSpec(T, api, kind, schema) ==
    IF Has(schema.props, "spec")
    THEN [T EXCEPT !.allowed =
            Put(@, <<api, kind>>, CollectPaths(Val(schema.props, "spec"), <<"spec">>))]
    ELSE T
\* statement n (1..4) of _register_schema
RegStep(n, T, api, kind, schema) ==
    CASE n = 1 -> RegFull(T, api, kind, schema)
      [] n = 2 -> RegKind(T, api, kind, schema)
      [] n = 3 -> RegTop(T, api, kind, schema)
      [] OTHER -> RegSpec(T, api, kind, schema)
RegisterSchema(T, api, kind, schema) ==
    RegStep(4, RegStep(3, RegStep(2, RegStep(1, T, api, kind, schema),
                                  api, kind, schema), api, kind, schema),
            api, kind, schema)
\* the n-th (1..4) of the four clear() calls
ClearStep(n, T) ==
    CASE n = 1 -> [T EXCEPT !.allowed = Empty]
      [] n = 2 -> [T EXCEPT !.top_allowed = Empty]
      [] n = 3 -> [T EXCEPT !.kind2api = Empty]
      [] OTHER -> [T EXCEPT !.full_schema = Empty]

\* ------------------------------------------------------------ discovery.py: ingestion
\* A fetched document: family "crd" (group, kind, versions of [name, served,
\* schema]), "openapi" (schemas of [gvks, schema]) or "other".
Crd(group, kind, versions) ==
    [family |-> "crd", group |-> group, kind |-> kind, versions |-> versions,
     schemas |-> <<>>]
OpenApi(schemas) ==
    [family |-> "openapi", group |-> "", kind |-> "", versions |-> <<>>,
     schemas |-> schemas]
OtherDoc == [family |-> "other", group |-> "", kind |-> "", versions |-> <<>>,
             schemas |-> <<>>]
Ver(name, served, schema) == [name |-> name, served |-> served, schema |-> schema]
Triple(api, kind, schema) == [api |-> api, kind |-> kind, schema |-> schema]
\* the defaults _ingest_crd writes into the openAPIV3Schema
Defaulted(openapi) ==
    [openapi EXCEPT !.type = IF @ = "" THEN "object" ELSE @, !.hasProps = TRUE]
RECURSIVE CrdVersions(_, _, _)
CrdVersions(group, kind, versions) ==
    IF versions = <<>> THEN <<>>
    ELSE LET v == Head(versions)
         IN (IF ~v.served \/ v.name = "" THEN <<>>
             ELSE <<Triple(group \o "/" \o v.name, kind, Defaulted(v.schema))>>)
            \o CrdVersions(group, kind, Tail(versions))

\* _ingest_crd: the register calls it makes, in order
IngestCrd(crd) ==
    IF crd.group = "" \/ crd.kind = "" \/ crd.versions = <<>> THEN <<>>
    ELSE CrdVersions(crd.group, crd.kind, crd.versions)
Gvk(group, version, kind) == [group |-> group, version |-> version, kind |-> kind]
Component(gvks, schema) == [gvks |-> gvks, schema |-> schema]
\* str(kind).endswith("List"), on the kind names of the model
EndsWithList(kind) == kind \in {"FooList", "BarList"}
RECURSIVE GvkTriples(_, _)
GvkTriples(gvks, schema) ==
    IF gvks = <<>> THEN <<>>
    ELSE LET g == Head(gvks)
         IN (IF g.version = "" \/ g.kind = "" \/ EndsWithList(g.kind) THEN <<>>
             ELSE <<Triple(IF g.group # "" THEN g.group \o "/" \o g.version
                           ELSE g.version, g.kind, schema)>>)
            \o GvkTriples(Tail(gvks), schema)
RECURSIVE IngestOpenApi(_)
\* _ingest_openapi over components.schemas: the register calls, in order
IngestOpenApi(schemas) ==
    IF schemas = <<>> THEN <<>>
    ELSE GvkTriples(Head(schemas).gvks, Head(schemas).schema)
         \o IngestOpenApi(Tail(schemas))
\* lines 139-142 of refresh: what one fetched document registers
IngestDoc(doc) ==
    IF doc.family = "crd" THEN IngestCrd(doc)
    ELSE IF doc.family = "openapi" THEN IngestOpenApi(doc.schemas)
    ELSE <<>>
RECURSIVE IngestDocs(_)
IngestDocs(docs) ==
    IF docs = <<>> THEN <<>> ELSE IngestDoc(Head(docs)) \o IngestDocs(Tail(docs))
RECURSIVE RegisterAll(_, _)
\* the register calls of `triples`, run in order on tables T
RegisterAll(T, triples) ==
    IF triples = <<>> THEN T
    ELSE RegisterAll(RegisterSchema(T, Head(triples).api, Head(triples).kind,
                                    Head(triples).schema), Tail(triples))

\* ------------------------------------------------------------ the schema source
\* Schemas the GitHub directory may serve.
MetaNamed == [Prim("object") EXCEPT !.required = {"name"}]
FooV1 == Obj(<<P("apiVersion", Prim("string")), P("kind", Prim("string")),
               P("metadata", MetaNamed),
               P("spec", Obj(<<P("replicas", Prim("integer"))>>, {"replicas"})),
               P("status", Prim("object"))>>, {"spec"})
\* Foo after an upstream change: rules is a required list of named rules
FooV2 == Obj(<<P("metadata", Prim("object")),
               P("spec", Obj(<<P("replicas", Prim("integer")),
                               P("rules", Arr(Obj(<<P("name", Prim("string")),
                                                    P("x", Prim("string"))>>,
                                                  {"name"})))>>,
                             {"rules"}))>>, {})
\* a type without a spec subtree
BarV1 == Obj(<<P("metadata", Prim("object")),
               P("data", Obj(<<P("x", Prim("string")), P("a", Prim("string"))>>,
                             {"x"}))>>, {"data", "kind"})
\* wildcards and combinators under spec
GwV1 == Obj(<<P("spec",
               [Obj(<<P("meta", [Obj(<<>>, {}) EXCEPT !.addl = "true"]),
                      P("sel", [Prim("object") EXCEPT
                                  !.oneOf = <<Obj(<<P("a", Prim("string"))>>, {}),
                                              Props(<<P("b", Prim("string"))>>)>>])>>,
                    {"meta"})
                EXCEPT !.preserve = FALSE])>>, {})
\* a schema with neither type nor properties (defaulted by _ingest_crd)
Bare == N0

Entry(type, yaml, docs) == [type |-> type, yaml |-> yaml, docs |-> docs]
\* Directory listings the source may return, each a sequence of entries.
SrcA == <<Entry("file", TRUE, <<Crd("g", "Foo", <<Ver("v1", TRUE, FooV1),
                                                  Ver("v0", FALSE, Bare)>>)>>),
          Entry("dir", TRUE, <<>>),
          Entry("file", TRUE, <<Crd("g", "Gw", <<Ver("v1", TRUE, GwV1)>>),
                                OtherDoc>>)>>
SrcB == <<Entry("file", TRUE, <<Crd("g", "Foo", <<Ver("v1", TRUE, FooV2)>>)>>),
          Entry("file", FALSE, <<>>),
          Entry("file", TRUE,
                <<OpenApi(<<Component(<<Gvk("g", "v1", "Bar"),
                                        Gvk("g", "v1", "BarList")>>, BarV1)>>)>>)>>
\* the same key served twice: a CRD of Foo, then an OpenAPI component of Foo
\* whose schema has no spec
SrcC == <<Entry("file", TRUE, <<Crd("g", "Foo", <<Ver("v1", TRUE, FooV1)>>)>>),
          Entry("file", TRUE,
                <<OpenApi(<<Component(<<Gvk("g", "v1", "Foo")>>, BarV1)>>)>>)>>
Sources == {SrcA, SrcB, SrcC}

IsYamlFile(ent) == ent.type = "file" /\ ent.yaml
\* the entries refresh fetches: files named *.yaml or *.yml
Fetched(listing) == SelectSeq(listing, IsYamlFile)

\* what _fetch_json_or_yaml_docs raises on: a network failure (fails), or a
\* file holding no mapping document
FileRaises(ent, fails) == fails \/ ent.docs = <<>>
RECURSIVE RunEntries(_, _, _, _)
\* the loop of refresh over the fetched entries, the failAt-th fetch failing
RunEntries(T, ents, j, failAt) ==
    IF ents = <<>> THEN [tables |-> T, ok |-> TRUE, calls |-> <<>>]
    ELSE IF FileRaises(Head(ents), j = failAt)
    THEN [tables |-> T, ok |-> FALSE, calls |-> <<>>]
    ELSE LET triples == IngestDocs(Head(ents).docs)
             r == RunEntries(RegisterAll(T, triples), Tail(ents), j + 1, failAt)
         IN [r EXCEPT !.calls = triples \o @]
ClearAll(T) == ClearStep(4, ClearStep(3, ClearStep(2, ClearStep(1, T))))
\* DiscoveryCache.refresh run without interruption: failAt = 0 fails the
\* directory listing, failAt = j the j-th file, a larger failAt nothing
RefreshRun(T, listing, failAt) ==
    IF failAt = 0 THEN [tables |-> ClearAll(T), ok |-> FALSE, calls |-> <<>>]
    ELSE RunEntries(ClearAll(T), Fetched(listing), 1, failAt)
FailPoints(listing) == 0 .. (Len(Fetched(listing)) + 1)

\* ------------------------------------------------------------ server.py: the handlers
\* A handler's outcome: "ok" (a return value), "http" (HTTPException `code`),
\* "raised" (another exception).  has* say which parts a return value carries.
R0 == [status |-> "ok", code |-> 200, detail |-> "", yaml |-> BadText,
       hasYaml |-> FALSE, removed |-> <<>>, hasRemoved |-> FALSE, paths |-> {},
       hasPaths |-> FALSE, valid |-> FALSE, hasValid |-> FALSE, count |-> 0]
Raise(st, code, why) == [R0 EXCEPT !.status = st, !.code = code, !.detail = why]
\* skeleton(req), run against table fs
Skeleton(key, fs) ==
    IF key \notin DOMAIN fs THEN Raise("http", 400, "Unknown apiVersion/kind")
    ELSE [R0 EXCEPT !.yaml = MakeSkeleton(key[1], key[2], fs[key]), !.hasYaml = TRUE]
\* list_supported(req)
ListSupported(key, fs, al, ta) ==
    IF key \notin DOMAIN fs THEN Raise("http", 400, "Unknown apiVersion/kind")
    ELSE IF key \in DOMAIN al THEN [R0 EXCEPT !.paths = al[key], !.hasPaths = TRUE]
    ELSE [R0 EXCEPT !.paths = (IF key \in DOMAIN ta THEN ta[key] ELSE {}) \ Always,
                    !.hasPaths = TRUE]
\* prune(req), given what _prune returned or raised
PruneResp(r) ==
    IF r.status # "ok" THEN Raise(r.status, r.code, r.detail)
    ELSE LET removed == r.removed_spec \o r.removed_meta_or_top
         IN IF removed # <<>>
            THEN [Raise("http", 422, "Unsupported fields stripped")
                    EXCEPT !.removed = removed, !.hasRemoved = TRUE]
            ELSE [R0 EXCEPT !.yaml = r.cleaned, !.hasYaml = TRUE,
                            !.hasRemoved = TRUE]
\* validate(req), given what _prune returned or raised
ValidateResp(text, r) ==
    IF text.parse = "error"
    THEN [R0 EXCEPT !.hasValid = TRUE, !.detail = "Invalid YAML"]
    ELSE IF r.status = "http"
    THEN [R0 EXCEPT !.hasValid = TRUE, !.detail = r.detail]
    ELSE IF r.status = "raised" THEN Raise("raised", 500, r.detail)
    ELSE LET removed == r.removed_spec \o r.removed_meta_or_top
         IN IF removed # <<>>
            THEN [R0 EXCEPT !.hasValid = TRUE, !.removed = removed,
                            !.hasRemoved = TRUE,
                            !.detail = "Unsupported fields (local schema)"]
            ELSE [R0 EXCEPT !.hasValid = TRUE, !.valid = TRUE,
                            !.detail = "Local schema check passed"]
\* refresh_discovery(), given how _DISC.refresh() ended and len(_FULL_SCHEMA)
RefreshResp(ok, n) ==
    IF ok THEN [R0 EXCEPT !.count = n]
    ELSE Raise("http", 500, "refresh failed")

\* ------------------------------------------------------------ requests
\* apiVersion and kind of the types the source may serve
TypeOpts == {<<E("apiVersion", VStr("g/v1")), E("kind", VStr("Foo"))>>,
             <<E("apiVersion", VStr("g/v1")), E("kind", VStr("Bar"))>>,
             <<E("apiVersion", VStr("g/v1")), E("kind", VStr("Gw"))>>}
\* a type no source serves; apiVersion missing, not a string, not hashable
OddTypeOpts == {<<E("apiVersion", VStr("x/v9")), E("kind", VStr("Nope"))>>,
                <<E("kind", VStr("Foo"))>>,
                <<E("apiVersion", VInt("1")), E("kind", VStr("Foo"))>>,
                <<E("apiVersion", VList(<<VStr("g/v1")>>)), E("kind", VStr("Foo"))>>}
MetaOpts == {<<>>,
             <<E("metadata", VMap(<<>>))>>,
             <<E("metadata", VMap(<<E("name", VStr("n"))>>))>>,
             <<E("metadata", VMap(<<E("name", VStr("n")),
                                    E("annotations", VMap(<<>>))>>))>>,
             <<E("metadata", VMap(<<E("annotations", VMap(<<E("a", VStr("1"))>>))>>))>>,
             <<E("metadata", VMap(<<E("labels", VMap(<<>>))>>))>>,
             <<E("metadata", VMap(<<E("name", VStr("n")),
                                    E("labels", VMap(<<E("a", VStr("1"))>>))>>))>>,
             <<E("metadata", VStr("n"))>>}
SpecOpts == {<<>>,
             <<E("spec", VMap(<<>>))>>,
             <<E("spec", VMap(<<E("replicas", VInt("3"))>>))>>,
             <<E("spec", VMap(<<E("replicas", VInt("3")), E("bogus", VStr("true"))>>))>>,
             <<E("spec", VMap(<<E("meta",
                   VMap(<<E("anything", VMap(<<E("else", VInt("1"))>>))>>))>>))>>,
             <<E("spec", VMap(<<E("rules",
                   VList(<<VMap(<<E("name", VStr("r"))>>),
                           VMap(<<E("name", VStr("s")), E("bogus", VInt("1"))>>)>>))>>))>>,
             <<E("spec", VMap(<<E("sel", VMap(<<E("a", VStr("1")),
                                               E("b", VStr("2"))>>))>>))>>}
ExtraOpts == {<<>>, <<E("status", VMap(<<>>))>>, <<E("stray", VInt("1"))>>,
              <<E("data", VMap(<<E("x", VStr("1"))>>))>>}
\* the bodies of the request documents: every option of one part with the
\* plainest options of the others, and the parts' faults together
Bodies == {me \o <<>> : me \in MetaOpts}
          \cup {sp : sp \in SpecOpts}
          \cup {<<E("metadata", VMap(<<E("name", VStr("n"))>>))>> \o sp \o ex :
                  sp \in SpecOpts, ex \in ExtraOpts}
          \cup {<<E("metadata", VMap(<<>>)),
                  E("spec", VMap(<<E("replicas", VInt("3")), E("bogus", VStr("true"))>>)),
                  E("stray", VInt("1"))>>}
OddBodies == {<<>>,
              <<E("spec", VMap(<<E("replicas", VInt("3"))>>))>>,
              <<E("metadata", VMap(<<E("annotations", VMap(<<E("a", VStr("1"))>>))>>)),
                E("stray", VInt("1"))>>}
MapTexts == {SafeDump(VMap(ty \o body)) : ty \in TypeOpts, body \in Bodies}
            \cup {SafeDump(VMap(ty \o body)) : ty \in OddTypeOpts, body \in OddBodies}
\* texts that do not parse, or parse to no mapping
OddTexts == {BadText, SafeDump(VNull), SafeDump(VInt("0")), SafeDump(VStr("hello")),
             SafeDump(VList(<<VStr("a"), VStr("b")>>))}
Texts == MapTexts \cup OddTexts
ReqKeys == {<<"g/v1", "Foo">>, <<"g/v1", "Bar">>, <<"g/v1", "Gw">>, <<"x/v9", "Nope">>}

\* ------------------------------------------------------------ cli.py: input lines
\* A line of standard input by what json.loads makes of it: json is "bad" (a
\* JSONDecodeError), "nonobject" (a list, a number, a string, null) or
\* "object"; id "null" is an absent or null id; meth "" is an absent method;
\* params is "absent", "dict" or "list"; tool is p["name"] ("" if absent);
\* argsOk says whether the arguments fit the tool's request type.
Line(json, id, meth, params, tool, argsOk) ==
    [json |-> json, id |-> id, meth |-> meth, params |-> params, tool |-> tool,
     argsOk |-> argsOk]
NoLine == Line("bad", "null", "", "absent", "", TRUE)
Ids == {"null", "7"}
\* a method given as a JSON list: not hashable
ListMeth == "[]"
IGNORED == {"resources/list", "prompts/list", "notifications/cancelled",
            "notifications/initialized"}
Methods == {"initialize", "resources/list", "notifications/initialized", "tools/list",
            "bogus/method", "", ListMeth}
\* the tools of HANDLERS that server.py defines, and whether they take a request
ToolNames == {"datum_list_crds", "datum_skeleton_crd", "datum_list_supported",
              "datum_prune_crd", "datum_validate_crd", "datum_refresh_discovery"}
TakesRequest(tool) == tool \notin {"datum_list_crds", "datum_refresh_discovery"}
Lines == {Line("bad", "null", "", "absent", "", TRUE),
          Line("nonobject", "null", "", "absent", "", TRUE)}
         \cup {Line("object", id, meth, "absent", "", TRUE) : id \in Ids, meth \in Methods}
         \cup {Line("object", id, "tools/call", params, "", TRUE) :
                 id \in Ids, params \in {"absent", "list", "dict"}}
         \cup {Line("object", id, "tools/call", "dict", tool, ok) :
                 id \in Ids, tool \in ToolNames \cup {"datum_nope"}, ok \in BOOLEAN}
\* a message written to standard output; id "absent" is a notification
Msg(id, kind) == [id |-> id, kind |-> kind]
\* the except clause of main: an error message unless the id is None
ErrorReply(id) == IF id # "null" THEN <<Msg(id, "error")>> ELSE <<>>
\* what main sends for a request object that does not reach a tool
Reply(ln) ==
    IF ln.meth = "initialize"
    THEN <<Msg(ln.id, "result"), Msg("absent", "notification")>>
    ELSE IF ln.meth = ListMeth THEN ErrorReply(ln.id)      \* `meth in IGNORED`: TypeError
    ELSE IF ln.meth \in IGNORED
    THEN (IF ln.id # "null" THEN <<Msg(ln.id, "result")>> ELSE <<>>)
    ELSE IF ln.meth = "tools/list" THEN <<Msg(ln.id, "result")>>
    ELSE IF ln.meth = "tools/call"
    THEN ErrorReply(ln.id)     \* p["name"], HANDLERS[name] or Ty(**argv) raised
    ELSE ErrorReply(ln.id)     \* unknown method
\* the tools/call requests that reach a handler of server.py
ReachesTool(ln) ==
    /\ ln.json = "object" /\ ln.meth = "tools/call" /\ ln.params = "dict"
    /\ ln.tool \in ToolNames
    /\ (TakesRequest(ln.tool) => ln.argsOk)
\* what main sends after the handler returned or raised `resp`
ToolReply(ln, resp) ==
    IF resp.status = "ok" THEN <<Msg(ln.id, "result")>> ELSE ErrorReply(ln.id)
\* the documents and keys the stdio client sends
StdioTexts ==
    {SafeDump(VMap(<<E("apiVersion", VStr("g/v1")), E("kind", VStr("Foo")),
                     E("spec", VMap(<<E("replicas", VInt("3"))>>))>>)),
     SafeDump(VMap(<<E("apiVersion", VStr("g/v1")), E("kind", VStr("Foo")),
                     E("spec", VMap(<<E("replicas", VInt("3")),
                                      E("bogus", VStr("true"))>>))>>)),
     SafeDump(VList(<<VStr("a"), VStr("b")>>))}
StdioKeys == {<<"g/v1", "Foo">>, <<"x/v9", "Nope">>}

\* ------------------------------------------------------------ state
VARIABLES
    allowed,       \* DiscoveryCache.allowed: (api, kind) -> set of spec paths
    top_allowed,   \* DiscoveryCache.top_allowed: (api, kind) -> top-level fields
    kind2api,      \* DiscoveryCache.kind2api: kind -> apiVersions
    full_schema,   \* DiscoveryCache.full_schema: (api, kind) -> schema
    last,          \* the handler that returned last: op, request, response
    before,        \* history: the tables when that handler was entered
    calls,         \* history: the register calls made since the tables were cleared
    failed,        \* history: the refresh that returned last raised
    pc,            \* HTTP mode: where each worker thread is in its handler
    loc,           \* HTTP mode: each worker thread's local variables
    nRefresh,      \* HTTP mode: refresh requests accepted so far
    cnode, cbase, cout,  \* a _collect_paths call: node, base, and the set filled
    cdone,               \* whether that call has returned
    running,       \* cli.py main: "yes", "ended" (end of input) or "crashed"
    nLines,        \* cli.py main: lines read so far
    req,           \* cli.py main: the line read last
    sent           \* cli.py main: the messages written while that line was handled

tabs == <<allowed, top_allowed, kind2api, full_schema>>
hvars == <<pc, loc, nRefresh>>
cvars == <<cnode, cbase, cout, cdone>>
svars == <<running, nLines, req, sent>>
vars == <<allowed, top_allowed, kind2api, full_schema, last, before, calls, failed,
          pc, loc, nRefresh, cnode, cbase, cout, cdone, running, nLines, req, sent>>

Live == Tables(allowed, top_allowed, kind2api, full_schema)
SetTables(T) == /\ allowed' = T.allowed
                /\ top_allowed' = T.top_allowed
                /\ kind2api' = T.kind2api
                /\ full_schema' = T.full_schema

Threads == 1 .. NThreads
NoKey == <<"", "">>
Last(op, text, key, resp) == [op |-> op, text |-> text, key |-> key, resp |-> resp]
L0 == [op |-> "", text |-> BadText, key |-> NoKey, entries |-> <<>>, todo |-> <<>>,
       n |-> 0, hasAllowed |-> FALSE, allowedSet |-> {}, schema |-> N0]

\* main has not read a line yet
StdioIdle == running = "yes" /\ nLines = 0 /\ req = NoLine /\ sent = <<>>

\* The module is imported: DiscoveryCache() ran refresh() to the end (a refresh
\* that raises ends the process before it serves).
InitTablesFrom(S) ==
    \E src \in S :
        LET r == RefreshRun(NoTables, src, Len(Fetched(src)) + 1)
        IN /\ r.ok
           /\ allowed = r.tables.allowed
           /\ top_allowed = r.tables.top_allowed
           /\ kind2api = r.tables.kind2api
           /\ full_schema = r.tables.full_schema
           /\ before = r.tables
           /\ calls = r.calls
InitRest ==
    /\ last = Last("import", BadText, NoKey, R0)
    /\ failed = FALSE
    /\ pc = [t \in Threads |-> "idle"]
    /\ loc = [t \in Threads |-> L0]
    /\ nRefresh = 0
    /\ cnode = N0 /\ cbase = <<>> /\ cout = {} /\ cdone = FALSE
    /\ StdioIdle
Init == InitTablesFrom(Sources) /\ InitRest

\* ------------------------------------------------------------ stdio mode
\* cli.py main serves one request at a time: each handler runs to its end.
SkeletonTexts == {MakeSkeleton(key[1], key[2], full_schema[key]) : key \in DOMAIN full_schema}

DoListCrds ==
    /\ last' = Last("list_crds", BadText, NoKey,
                    [R0 EXCEPT !.paths = DOMAIN full_schema, !.hasPaths = TRUE])
    /\ before' = Live
    /\ UNCHANGED <<tabs, calls, failed, hvars, cvars, svars>>
DoSkeleton ==
    \E key \in ReqKeys :
        /\ last' = Last("skeleton", BadText, key, Skeleton(key, full_schema))
        /\ before' = Live
        /\ UNCHANGED <<tabs, calls, failed, hvars, cvars, svars>>
DoListSupported ==
    \E key \in ReqKeys :
        /\ last' = Last("list_supported", BadText, key,
                        ListSupported(key, full_schema, allowed, top_allowed))
        /\ before' = Live
        /\ UNCHANGED <<tabs, calls, failed, hvars, cvars, svars>>
DoPrune ==
    \E text \in Texts \cup SkeletonTexts :
        /\ last' = Last("prune", text, NoKey,
                        PruneResp(Prune(text, full_schema, allowed, top_allowed)))
        /\ before' = Live
        /\ UNCHANGED <<tabs, calls, failed, hvars, cvars, svars>>
DoValidate ==
    \E text \in Texts \cup SkeletonTexts :
        /\ last' = Last("validate", text, NoKey,
                        ValidateResp(text, Prune(text, full_schema, allowed, top_allowed)))
        /\ before' = Live
        /\ UNCHANGED <<tabs, calls, failed, hvars, cvars, svars>>
\* refresh_discovery: the four clears, then _DISC.refresh()
DoRefresh ==
    \E src \in Sources : \E failAt \in FailPoints(src) :
        LET r == RefreshRun(ClearAll(Live), src, failAt)
        IN /\ SetTables(r.tables)
           /\ calls' = r.calls
           /\ failed' = ~r.ok
           /\ last' = Last("refresh", BadText, NoKey,
                           RefreshResp(r.ok, Cardinality(DOMAIN r.tables.full_schema)))
           /\ before' = Live
           /\ UNCHANGED <<hvars, cvars, svars>>

Next == \/ DoListCrds
        \/ DoSkeleton
        \/ DoListSupported
        \/ DoPrune
        \/ DoValidate
        \/ DoRefresh
Spec == Init /\ [][Next]_vars

\* ------------------------------------------------------------ cli.py: main
\* the listings the source serves while the stdio loop runs
StdioSources == {SrcA, SrcB}
\* One pass of the `while True` loop of main for each line read.
\* the handler HANDLERS[name] runs to its end: its response, and the tables it leaves
Handled(op, text, key, resp, T, cs, bad) ==
    /\ last' = Last(op, text, key, resp)
    /\ before' = Live
    /\ SetTables(T)
    /\ calls' = cs
    /\ failed' = bad
\* res = fn(Ty(**argv)) or fn(), then the result or the error message
CallTool(ln) ==
    \/ /\ ln.tool = "datum_list_crds"
       /\ Handled("list_crds", BadText, NoKey,
                  [R0 EXCEPT !.paths = DOMAIN full_schema, !.hasPaths = TRUE],
                  Live, calls, failed)
    \/ /\ ln.tool = "datum_skeleton_crd"
       /\ \E key \in StdioKeys :
            Handled("skeleton", BadText, key, Skeleton(key, full_schema),
                    Live, calls, failed)
    \/ /\ ln.tool = "datum_list_supported"
       /\ \E key \in StdioKeys :
            Handled("list_supported", BadText, key,
                    ListSupported(key, full_schema, allowed, top_allowed),
                    Live, calls, failed)
    \/ /\ ln.tool = "datum_prune_crd"
       /\ \E text \in StdioTexts :
            Handled("prune", text, NoKey,
                    PruneResp(Prune(text, full_schema, allowed, top_allowed)),
                    Live, calls, failed)
    \/ /\ ln.tool = "datum_validate_crd"
       /\ \E text \in StdioTexts :
            Handled("validate", text, NoKey,
                    ValidateResp(text, Prune(text, full_schema, allowed, top_allowed)),
                    Live, calls, failed)
    \/ /\ ln.tool = "datum_refresh_discovery"
       /\ \E src \in StdioSources : \E failAt \in FailPoints(src) :
            LET r == RefreshRun(ClearAll(Live), src, failAt)
            IN Handled("refresh", BadText, NoKey,
                       RefreshResp(r.ok, Cardinality(DOMAIN r.tables.full_schema)),
                       r.tables, r.calls, ~r.ok)
\* raw = await _read() returned a line: lines 161-218
MainLine ==
    /\ running = "yes" /\ nLines < MaxLines
    /\ \E ln \in Lines :
         /\ req' = ln
         /\ nLines' = nLines + 1
         /\ IF ln.json = "bad"                 \* JSONDecodeError: continue
            THEN /\ sent' = <<>> /\ running' = running
                 /\ UNCHANGED <<tabs, last, before, calls, failed>>
            ELSE IF ln.json = "nonobject"      \* req.get: AttributeError leaves main
            THEN /\ sent' = <<>> /\ running' = "crashed"
                 /\ UNCHANGED <<tabs, last, before, calls, failed>>
            ELSE IF ReachesTool(ln)
            THEN /\ CallTool(ln)
                 /\ sent' = ToolReply(ln, last'.resp)
                 /\ running' = running
            ELSE /\ sent' = Reply(ln) /\ running' = running
                 /\ UNCHANGED <<tabs, last, before, calls, failed>>
    /\ UNCHANGED <<hvars, cvars>>
\* raw is empty at end of input: break
MainEof ==
    /\ running = "yes"
    /\ running' = "ended"
    /\ UNCHANGED <<tabs, last, before, calls, failed, hvars, cvars, nLines, req, sent>>
StdioNext == MainLine \/ MainEof
StdioInit == InitTablesFrom(StdioSources) /\ InitRest
SpecStdio == StdioInit /\ [][StdioNext]_vars

\* C15: the loop answers every request and keeps serving: a line that parses
\* as JSON and carries a non-null id gets exactly one message with that id
\* while it is handled, and no line (malformed, not an object, of an unknown
\* method, or whose tool fails) ends the loop before the end of input.
C15_StdioAnswersAndServes ==
    /\ running # "crashed"
    /\ (req.json # "bad" /\ req.id # "null") =>
          Cardinality({i \in DOMAIN sent : sent[i].id = req.id}) = 1

\* ------------------------------------------------------------ properties, stdio mode
IsWild(w) == Len(w) > 2 /\ w[Len(w)] = Star /\ w[Len(w) - 1] = Dot
\* path p lies at or below the prefix of the wildcard entry w
Under(p, w) ==
    LET q == SubSeq(w, 1, Len(w) - 2)
    IN /\ Len(p) >= Len(q)
       /\ SubSeq(p, 1, Len(q)) = q
       /\ (Len(p) = Len(q) \/ p[Len(q) + 1] = Dot)
\* the request of the last handler is a mapping naming a type by scalars
NamesType(text) ==
    /\ text.parse = "ok"
    /\ LoadOrEmpty(text).t = "map"
    /\ Hashable(DGet(LoadOrEmpty(text), "apiVersion"))
    /\ Hashable(DGet(LoadOrEmpty(text), "kind"))
LastPruned == last.op \in {"prune", "validate"} /\ NamesType(last.text)
                /\ DocKey(last.text) \in DOMAIN full_schema
\* what _prune returned to the last prune or validate handler
LastPrune == Prune(last.text, full_schema, allowed, top_allowed)

\* C1: a refresh that fails leaves the four tables exactly as they were when it
\* started.
C1_RefreshAllOrNothing ==
    (last.op = "refresh" /\ last.resp.status # "ok") => Live = before

\* C4: when the type's specPaths holds "<prefix>.*", prune removes no key at or
\* below <prefix>.
C4_WildcardSubsumption ==
    (LastPruned /\ DocKey(last.text) \in DOMAIN allowed) =>
        \A i \in DOMAIN LastPrune.removed_spec :
            \A w \in allowed[DocKey(last.text)] :
                IsWild(w) => ~Under(LastPrune.removed_spec[i], w)

\* C5: pruning the skeleton of a registered type removes nothing: prune returns
\* it with an empty removal list, and validate accepts it.
C5_PruneSkeletonClean ==
    (last.op \in {"prune", "validate"} /\ last.text \in SkeletonTexts) =>
        /\ last.resp.status = "ok"
        /\ last.resp.removed = <<>>
        /\ LastPrune.removed_spec = <<>>
        /\ LastPrune.removed_meta_or_top = <<>>
        /\ last.op = "validate" => last.resp.valid
\* a skeleton with a required list of rules under spec was pruned
C5_Witness ==
    /\ last.op = "prune" /\ last.text \in SkeletonTexts
    /\ last.resp.status = "ok"
    /\ Has(last.text.data.e, "spec")
    /\ Has(DGet(last.text.data, "spec").e, "rules")
    /\ DGet(DGet(last.text.data, "spec"), "rules").e # <<>>

\* C6: a document prune reports no removal for comes back unchanged, and
\* pruning the cleaned document reports no removal either.
C6_PruneIdentity ==
    (last.op = "prune" /\ last.resp.status = "ok") =>
        /\ last.resp.yaml = last.text
        /\ LET again == Prune(last.resp.yaml, full_schema, allowed, top_allowed)
           IN again.status = "ok" /\ again.removed_spec = <<>>
              /\ again.removed_meta_or_top = <<>>

\* C7: prune, skeleton and list_supported of a type that is not registered
\* fail with the unknown-type error (HTTP 400) and return nothing.
C7_UnknownTypeFails ==
    LET unknown == \/ /\ last.op = "prune" /\ NamesType(last.text)
                      /\ DocKey(last.text) \notin DOMAIN full_schema
                   \/ /\ last.op \in {"skeleton", "list_supported"}
                      /\ last.key \notin DOMAIN full_schema
    IN unknown => /\ last.resp.status = "http" /\ last.resp.code = 400
                  /\ ~last.resp.hasYaml /\ ~last.resp.hasRemoved
                  /\ ~last.resp.hasPaths
                  /\ last.resp.removed = <<>> /\ last.resp.paths = {}
C7_Witness ==
    /\ last.op = "prune" /\ NamesType(last.text)
    /\ DocKey(last.text) = <<"x/v9", "Nope">>
    /\ Has(LoadOrEmpty(last.text).e, "metadata")
    /\ last.resp.code = 400

\* C8: validate returns a verdict for every input text and never raises.
C8_ValidateNeverRaises ==
    last.op = "validate" => (last.resp.status = "ok" /\ last.resp.hasValid)

\* the original paths (index markers included) of the keys of a document, in
\* document order, parents before children
RECURSIVE KeyPaths(_, _)
RECURSIVE KeyPathsDict(_, _)
RECURSIVE KeyPathsList(_, _, _)
KeyPaths(node, dotted) ==
    IF node.t = "map" THEN KeyPathsDict(node.e, dotted)
    ELSE IF node.t = "list" THEN KeyPathsList(node.e, 0, dotted)
    ELSE <<>>
KeyPathsDict(ents, dotted) ==
    IF ents = <<>> THEN <<>>
    ELSE <<Join(dotted, Head(ents).k)>>
         \o KeyPaths(Head(ents).v, Join(dotted, Head(ents).k))
         \o KeyPathsDict(Tail(ents), dotted)
KeyPathsList(items, i, dotted) ==
    IF items = <<>> THEN <<>>
    ELSE KeyPaths(Head(items), dotted \o <<IdxTok(i)>>)
         \o KeyPathsList(Tail(items), i + 1, dotted)
\* the value found at an original path, VNull if the path leads nowhere
RECURSIVE At(_, _)
At(node, p) ==
    IF p = <<>> THEN node
    ELSE IF Head(p) = Dot THEN At(node, Tail(p))
    ELSE IF ~IsNotIdx(Head(p))
    THEN LET i == CHOOSE j \in DOMAIN IdxTokens : IdxTokens[j] = Head(p)
         IN IF node.t = "list" /\ i \in DOMAIN node.e THEN At(node.e[i], Tail(p))
            ELSE VNull
    ELSE IF node.t = "map" /\ Has(node.e, Head(p)) THEN At(Val(node.e, Head(p)), Tail(p))
    ELSE VNull
\* the paths of the keys above the key at p
Ancestors(p) ==
    {SubSeq(p, 1, n) : n \in {m \in 1 .. (Len(p) - 1) : p[m] # Dot /\ IsNotIdx(p[m])}}
\* the key at p lies under spec and its index-stripped path is not in al
Off(p, al) == StartsWithSpecDot(IDXsub(p)) /\ IDXsub(p) \notin al
\* the key at p is one spec pruning removes: off, below no key that is off
RemovedKey(p, al) == Off(p, al) /\ \A a \in Ancestors(p) : ~Off(a, al)
\* the key at p is removed, or goes with a removed key above it
Gone(p, al) == \E a \in Ancestors(p) \cup {p} : Off(a, al)
UnderSpec(p) == Len(p) > 1 /\ p[1] = "spec"

\* C12: for a registered type with a wildcard-free specPaths, prune removes a
\* key under spec, with its subtree, exactly when its index-stripped path is
\* not in specPaths and no key above it was removed; every other key under spec
\* is in the cleaned document with its value; removedSpecPaths lists each
\* removed key once, in document order.
C12_SpecPruneExact ==
    (/\ LastPruned /\ DocKey(last.text) \in DOMAIN allowed
     /\ \A w \in allowed[DocKey(last.text)] : ~IsWild(w))
    => LET al == allowed[DocKey(last.text)]
           in == LoadOrEmpty(last.text)
           out == LastPrune.cleaned.data
           removedHere(p) == RemovedKey(p, al)
           keptHere(p) == UnderSpec(p) /\ ~Gone(p, al)
           gone == SelectSeq(KeyPaths(in, <<>>), removedHere)
       IN /\ LastPrune.status = "ok"
          /\ LastPrune.removed_spec = [i \in DOMAIN gone |-> IDXsub(gone[i])]
          /\ SelectSeq(KeyPaths(out, <<>>), UnderSpec)
               = SelectSeq(KeyPaths(in, <<>>), keptHere)
          /\ \A q \in SeqSet(KeyPaths(in, <<>>)) :
                (keptHere(q) /\ At(in, q).t \notin {"map", "list"})
                   => At(out, q) = At(in, q)

\* C13: when _prune removed a field, prune fails (HTTP 422) and the failure
\* carries the cleaned document and the removed paths; when it removed
\* nothing, prune returns the cleaned document and an empty removal list.
C13_StrictPruneCarriesCleaned ==
    (last.op = "prune" /\ LastPrune.status = "ok") =>
        LET removed == LastPrune.removed_spec \o LastPrune.removed_meta_or_top
        IN /\ last.resp.hasYaml /\ last.resp.yaml = LastPrune.cleaned
           /\ last.resp.hasRemoved /\ last.resp.removed = removed
           /\ IF removed # <<>>
              THEN last.resp.status = "http" /\ last.resp.code = 422
              ELSE last.resp.status = "ok"

\* C14: removedSpecPaths holds the original document paths of the removed
\* keys, index markers included (spec.rules[1].bogus), not the index-stripped
\* paths that are looked up in specPaths.
C14_RemovedPathsOriginal ==
    (LastPruned /\ DocKey(last.text) \in DOMAIN allowed) =>
        LET al == allowed[DocKey(last.text)]
            removedHere(p) == RemovedKey(p, al)
        IN LastPrune.removed_spec
             = SelectSeq(KeyPaths(LoadOrEmpty(last.text), <<>>), removedHere)

\* the schema of the last register call for `key` among cs
LastCall(cs, key) ==
    cs[CHOOSE i \in DOMAIN cs :
         /\ <<cs[i].api, cs[i].kind>> = key
         /\ \A j \in DOMAIN cs : <<cs[j].api, cs[j].kind>> = key => j <= i].schema
\* C9: after the register calls of one snapshot, each key shows only the schema
\* registered last for it: specPaths is defined iff that schema has a spec (and
\* is collect of it), and topLevelFields are that schema's property names.
C9_LastRegistrationWins ==
    \A key \in {<<calls[i].api, calls[i].kind>> : i \in DOMAIN calls} :
        LET schema == LastCall(calls, key)
        IN /\ full_schema[key] = schema
           /\ top_allowed[key] = Keys(schema.props)
           /\ (key \in DOMAIN allowed) <=> Has(schema.props, "spec")
           /\ Has(schema.props, "spec") =>
                allowed[key] = CollectPaths(Val(schema.props, "spec"), <<"spec">>)

\* ------------------------------------------------------------ _collect_paths alone
\* The nodes handed to _collect_paths: a node with one combinator list of up to
\* MaxBranches branches, each branch declaring one property, with or without
\* "type: object", itself typed or not and with or without a property of its own.
Leaf == Prim("string")
Branches == {Props(<<P(key, Leaf)>>) : key \in {"a", "b"}}
            \cup {Obj(<<P(key, Leaf)>>, {}) : key \in {"a", "b"}}
            \cup {Arr(Obj(<<P("x", Leaf)>>, {})), [N0 EXCEPT !.preserve = TRUE]}
BranchLists == UNION {[1 .. n -> Branches] : n \in 1 .. MaxBranches}
Owners == {N0, Obj(<<>>, {}), Obj(<<P("x", Leaf)>>, {})}
CNodes == {[o EXCEPT !.allOf = bs] : o \in Owners, bs \in BranchLists}
          \cup {[o EXCEPT !.anyOf = bs] : o \in Owners, bs \in BranchLists}
          \cup {[o EXCEPT !.oneOf = bs] : o \in Owners, bs \in BranchLists}
\* Nodes with arrays: a list of rules under an object, a list of lists, a list
\* without items, a list of scalars, and lists below the elements of a list.
Named == Obj(<<P("name", Leaf)>>, {})
ItemKinds == {Named, Obj(<<P("name", Leaf), P("x", Leaf)>>, {"name"}), Leaf,
              Arr(Named), Obj(<<P("sub", Arr(Obj(<<P("x", Leaf)>>, {})))>>, {}),
              [Named EXCEPT !.addl = "true"]}
\* the schema of the example: spec is an object whose rules are named objects
RulesSpec == Obj(<<P("rules", Arr(Named))>>, {})
ArrNodes == {Obj(<<P("rules", Arr(it))>>, {}) : it \in ItemKinds}
            \cup {Obj(<<P("replicas", Prim("integer")), P("rules", Arr(it))>>,
                      {"replicas"}) : it \in ItemKinds}
            \cup {Arr(it) : it \in ItemKinds}
            \cup {Prim("array")}
CBases == {<<"spec">>, <<"spec", Dot, "sel">>}

CollectInit ==
    /\ allowed = Empty /\ top_allowed = Empty /\ kind2api = Empty
    /\ full_schema = Empty
    /\ before = NoTables /\ calls = <<>> /\ failed = FALSE
    /\ last = Last("import", BadText, NoKey, R0)
    /\ pc = [t \in Threads |-> "idle"]
    /\ loc = [t \in Threads |-> L0]
    /\ nRefresh = 0
    /\ cnode \in CNodes \cup ArrNodes /\ cbase \in CBases /\ cout = {} /\ cdone = FALSE
    /\ StdioIdle
\* s = set(); self._collect_paths(node, base, out=s)
Collect ==
    /\ ~cdone
    /\ cout' = CollectPaths(cnode, cbase)
    /\ cdone' = TRUE
    /\ UNCHANGED <<tabs, last, before, calls, failed, hvars, svars, cnode, cbase>>
SpecCollect == CollectInit /\ [][Collect]_vars

AllBranches(node) == SeqSet(node.allOf) \cup SeqSet(node.anyOf) \cup SeqSet(node.oneOf)
\* C10 as stated: for oneOf: [{properties: {a}}, {properties: {b}}] under base
\* "spec" the collected set holds spec.a and spec.b.
C10_OneOfExample ==
    (/\ cdone /\ cbase = <<"spec">> /\ Len(cnode.oneOf) = 2
     /\ Has(cnode.oneOf[1].props, "a") /\ Has(cnode.oneOf[2].props, "b"))
    => {<<"spec", Dot, "a">>, <<"spec", Dot, "b">>} \subseteq cout
\* C10 amended: every branch of allOf/anyOf/oneOf is collected under the node's
\* own base and the results are unioned: each property of a branch of type
\* object is in the set under that base (so spec.a and spec.b for the two typed
\* branches of the example), as is the wildcard of a branch preserving unknown
\* fields and the element fields of an array branch.
C10_CombinatorUnion ==
    cdone =>
        \A b \in AllBranches(cnode) :
            /\ b.type = "object" => \A key \in Keys(b.props) : Join(cbase, key) \in cout
            /\ b.preserve => Wild(cbase) \in cout
            /\ (b.type = "array" /\ b.items # <<>> /\ b.items[1].type = "object") =>
                  \A key \in Keys(b.items[1].props) : Join(cbase, key) \in cout
\* the example with both branches of type object has been collected
C10_Witness ==
    /\ cdone /\ cbase = <<"spec">>
    /\ cnode.oneOf = <<Obj(<<P("a", Leaf)>>, {}), Obj(<<P("b", Leaf)>>, {})>>
    /\ {<<"spec", Dot, "a">>, <<"spec", Dot, "b">>} \subseteq cout

\* the array-typed fields of node collected under base: the node itself, and
\* the properties of an object node, as [path, items]
ArrayFields(node, base) ==
    (IF node.type = "array" /\ node.items # <<>>
     THEN {[path |-> base, items |-> node.items[1]]} ELSE {})
    \cup (IF node.type = "object"
          THEN {[path |-> Join(base, node.props[i].k), items |-> node.props[i].v.items[1]] :
                  i \in {j \in DOMAIN node.props :
                           /\ node.props[j].v.type = "array"
                           /\ node.props[j].v.items # <<>>}}
          ELSE {})
\* C11: being a list element adds no path segment: for the spec schema whose
\* rules are a list of objects with a name, the collected set is exactly
\* {spec.rules, spec.rules.name}; no collected path holds an index marker, and
\* the fields of a list's elements lie directly under the path of the list.
C11_ArrayNoSegment ==
    cdone =>
        /\ (cnode = RulesSpec /\ cbase = <<"spec">>) =>
              cout = {<<"spec", Dot, "rules">>, <<"spec", Dot, "rules", Dot, "name">>}
        /\ \A p \in cout : IDXsub(p) = p
        /\ \A f \in ArrayFields(cnode, cbase) :
              f.items.type = "object" =>
                 \A key \in Keys(f.items.props) : Join(f.path, key) \in cout
\* the example schema has been collected under "spec"
C11_Witness ==
    /\ cdone /\ cnode = RulesSpec /\ cbase = <<"spec">>
    /\ <<"spec", Dot, "rules", Dot, "name">> \in cout

\* ------------------------------------------------------------ HTTP mode
\* server.run_http: the handlers are plain functions that the worker pool runs
\* on threads, so handlers interleave between two accesses to the tables.
\* Each action below is one access of one thread.
HttpTexts ==
    {SafeDump(VMap(<<E("apiVersion", VStr("g/v1")), E("kind", VStr("Foo")),
                     E("spec", VMap(<<E("replicas", VInt("3")),
                                      E("bogus", VStr("true"))>>))>>))}
HttpKeys == {<<"g/v1", "Foo">>, <<"x/v9", "Nope">>}
\* the listings the source serves while the HTTP server runs
HttpSources == {SrcA, SrcB}
RefreshPcs == {"clear", "listing", "file", "reg"}

Goto(t, where, l) == /\ pc' = [pc EXCEPT ![t] = where]
                     /\ loc' = [loc EXCEPT ![t] = l]
\* thread t's handler returns or raises
Finish(t, resp) ==
    /\ last' = Last(loc[t].op, loc[t].text, loc[t].key, resp)
    /\ Goto(t, "idle", L0)

\* refresh_discovery is entered
HBeginRefresh(t) ==
    /\ pc[t] = "idle" /\ nRefresh < MaxRefresh
    /\ nRefresh' = nRefresh + 1
    /\ Goto(t, "clear", [L0 EXCEPT !.op = "refresh", !.n = 1])
    /\ UNCHANGED <<tabs, last, before, calls, failed, cvars, svars>>
\* one clear(): four in refresh_discovery, then four in DiscoveryCache.refresh
HClear(t) ==
    /\ pc[t] = "clear"
    /\ SetTables(ClearStep(((loc[t].n - 1) % 4) + 1, Live))
    /\ Goto(t, IF loc[t].n = 8 THEN "listing" ELSE "clear",
            [loc[t] EXCEPT !.n = @ + 1])
    /\ UNCHANGED <<last, before, calls, failed, nRefresh, cvars, svars>>
\* entries = self._fetch_json(dir_url): a listing, or an exception
HListing(t) ==
    /\ pc[t] = "listing"
    /\ \/ \E src \in HttpSources :
            /\ Goto(t, "file", [loc[t] EXCEPT !.entries = Fetched(src)])
            /\ UNCHANGED <<last, failed>>
       \/ /\ Finish(t, RefreshResp(FALSE, 0))
          /\ failed' = TRUE
    /\ UNCHANGED <<tabs, before, calls, nRefresh, cvars, svars>>
\* the next entry is fetched and parsed; after the last, refresh returns
HFile(t) ==
    /\ pc[t] = "file"
    /\ IF loc[t].entries = <<>>
       THEN /\ Finish(t, RefreshResp(TRUE, Cardinality(DOMAIN full_schema)))
            /\ failed' = FALSE
       ELSE \E fails \in BOOLEAN :
              IF FileRaises(Head(loc[t].entries), fails)
              THEN Finish(t, RefreshResp(FALSE, 0)) /\ failed' = TRUE
              ELSE LET todo == IngestDocs(Head(loc[t].entries).docs)
                   IN /\ Goto(t, IF todo = <<>> THEN "file" ELSE "reg",
                              [loc[t] EXCEPT !.entries = Tail(@), !.todo = todo,
                                             !.n = 1])
                      /\ UNCHANGED <<last, failed>>
    /\ UNCHANGED <<tabs, before, calls, nRefresh, cvars, svars>>
\* one statement of _register_schema
HRegister(t) ==
    /\ pc[t] = "reg"
    /\ LET c == Head(loc[t].todo)
       IN SetTables(RegStep(loc[t].n, Live, c.api, c.kind, c.schema))
    /\ IF loc[t].n < 4 THEN Goto(t, "reg", [loc[t] EXCEPT !.n = @ + 1])
       ELSE IF Len(loc[t].todo) > 1
       THEN Goto(t, "reg", [loc[t] EXCEPT !.todo = Tail(@), !.n = 1])
       ELSE Goto(t, "file", [loc[t] EXCEPT !.todo = <<>>])
    /\ UNCHANGED <<last, before, calls, failed, nRefresh, cvars, svars>>

\* prune or validate is entered: lines 61-66 of _prune
HBeginPrune(t) ==
    /\ pc[t] = "idle"
    /\ \E op \in {"prune", "validate"} : \E text \in HttpTexts :
         LET h == PruneHead(text)
             l == [L0 EXCEPT !.op = op, !.text = text, !.key = DocKey(text)]
         IN IF h.status = "ok"
            THEN Goto(t, "p_full", l) /\ UNCHANGED last
            ELSE /\ last' = Last(op, text, DocKey(text),
                                 IF op = "prune" THEN PruneResp(h)
                                 ELSE ValidateResp(text, h))
                 /\ UNCHANGED <<pc, loc>>
    /\ UNCHANGED <<tabs, before, calls, failed, nRefresh, cvars, svars>>
PruneFinish(t, r) ==
    Finish(t, IF loc[t].op = "prune" THEN PruneResp(r)
              ELSE ValidateResp(loc[t].text, r))
\* if (api, kind) not in _FULL_SCHEMA
HPruneFull(t) ==
    /\ pc[t] = "p_full"
    /\ IF loc[t].key \notin DOMAIN full_schema THEN PruneFinish(t, UnknownType)
       ELSE Goto(t, "p_has", loc[t]) /\ UNCHANGED last
    /\ UNCHANGED <<tabs, before, calls, failed, nRefresh, cvars, svars>>
\* if (api, kind) in _ALLOWED
HPruneHas(t) ==
    /\ pc[t] = "p_has"
    /\ Goto(t, IF loc[t].key \in DOMAIN allowed THEN "p_get" ELSE "p_top", loc[t])
    /\ UNCHANGED <<tabs, last, before, calls, failed, nRefresh, cvars, svars>>
\* allowed = _ALLOWED[(api, kind)]: a KeyError if the entry is gone
HPruneGet(t) ==
    /\ pc[t] = "p_get"
    /\ IF loc[t].key \notin DOMAIN allowed
       THEN PruneFinish(t, Failure("raised", 500, "KeyError"))
       ELSE /\ Goto(t, "p_top", [loc[t] EXCEPT !.hasAllowed = TRUE,
                                                !.allowedSet = allowed[loc[t].key]])
            /\ UNCHANGED last
    /\ UNCHANGED <<tabs, before, calls, failed, nRefresh, cvars, svars>>
\* the walk, the metadata loops, _TOP_ALLOWED.get and the top-level loop
HPruneTop(t) ==
    /\ pc[t] = "p_top"
    /\ PruneFinish(t, PruneBody(LoadOrEmpty(loc[t].text), loc[t].hasAllowed,
                                loc[t].allowedSet,
                                IF loc[t].key \in DOMAIN top_allowed
                                THEN top_allowed[loc[t].key] ELSE {}))
    /\ UNCHANGED <<tabs, before, calls, failed, nRefresh, cvars, svars>>
\* skeleton is entered: if key not in _FULL_SCHEMA
HBeginSkeleton(t) ==
    /\ pc[t] = "idle"
    /\ \E key \in HttpKeys :
         IF key \notin DOMAIN full_schema
         THEN /\ last' = Last("skeleton", BadText, key, Skeleton(key, full_schema))
              /\ UNCHANGED <<pc, loc>>
         ELSE /\ Goto(t, "s_get", [L0 EXCEPT !.op = "skeleton", !.key = key])
              /\ UNCHANGED last
    /\ UNCHANGED <<tabs, before, calls, failed, nRefresh, cvars, svars>>
\* schema = _FULL_SCHEMA[(api, kind)] in _make_skeleton: a KeyError if it is gone
HSkeletonGet(t) ==
    /\ pc[t] = "s_get"
    /\ Finish(t, IF loc[t].key \notin DOMAIN full_schema
                 THEN Raise("raised", 500, "KeyError")
                 ELSE Skeleton(loc[t].key, full_schema))
    /\ UNCHANGED <<tabs, before, calls, failed, nRefresh, cvars, svars>>

HttpNext == \E t \in Threads :
    \/ HBeginRefresh(t)
    \/ HClear(t)
    \/ HListing(t)
    \/ HFile(t)
    \/ HRegister(t)
    \/ HBeginPrune(t)
    \/ HPruneFull(t)
    \/ HPruneHas(t)
    \/ HPruneGet(t)
    \/ HPruneTop(t)
    \/ HBeginSkeleton(t)
    \/ HSkeletonGet(t)
HttpInit == InitTablesFrom(HttpSources) /\ InitRest
SpecHttp == HttpInit /\ [][HttpNext]_vars

\* ------------------------------------------------------------ properties, HTTP mode
\* the tables a refresh of each listing builds when nothing interrupts or fails
CompleteSnapshots ==
    {RefreshRun(NoTables, src, Len(Fetched(src)) + 1).tables : src \in Sources}
\* what the handler of `last` answers when it runs alone on tables T
AnswerOn(T) ==
    IF last.op = "skeleton" THEN Skeleton(last.key, T.full_schema)
    ELSE LET r == Prune(last.text, T.full_schema, T.allowed, T.top_allowed)
         IN IF last.op = "prune" THEN PruneResp(r) ELSE ValidateResp(last.text, r)

\* C2: a prune, validate or skeleton that runs while a refresh runs answers
\* from one complete registry (the one before or the one after the refresh):
\* its answer is the answer it gives on some complete snapshot, as long as no
\* refresh has failed.
C2_ReadsSeeOneSnapshot ==
    (last.op \in {"prune", "validate", "skeleton"} /\ ~failed) =>
        \E T \in CompleteSnapshots : last.resp = AnswerOn(T)

\* C3: at most one thread is inside refresh (its clears, fetches and register
\* statements) at any time.
C3_OneRefreshInFlight ==
    Cardinality({t \in Threads : pc[t] \in RefreshPcs}) <= 1

=============================================================================
